---- MODULE Spec2Model ----
(***************************************************************************)
(* Model of the coursework backend server (Express handlers over a         *)
(* MongoDB store): the order normaliser buildOrderDoc, the lazy storage    *)
(* connection getDb and the route handlers of src/scripts/seed.js          *)
(* (the same code as src/unnamed/part_000).                                *)
(*                                                                         *)
(* JavaScript values are tagged records.  Strings are sequences of         *)
(* one-character strings, so that the regular expressions and the numeric  *)
(* coercions of the code are computed character by character.  Finite      *)
(* numbers are decimals m * 10^(-e), kept normalised (no trailing zero in  *)
(* the fraction).                                                          *)
(*                                                                         *)
(* In Spec the requests are served one at a time: a request arrives        *)
(* (Receive), its handler runs to its response (one action per route), and *)
(* the response is sent (Finish).  A storage call may fail, which the      *)
(* handler's catch turns into a 500; a call that fails changes nothing in  *)
(* the collections.                                                        *)
(*                                                                         *)
(* In Concurrent, PUT /lessons/:id requests are in flight together and     *)
(* SIGINT/SIGTERM may arrive: a handler runs from one await to the next in *)
(* one step (Node runs one callback at a time), so getDb is split at       *)
(* `await client.connect()`, the handler at its awaits on updateOne and    *)
(* findOne, and shutdown at `await client.close()`.                        *)
(***************************************************************************)
EXTENDS Integers, Sequences, FiniteSets, TLC

VARIABLES
    uri,        \* process.env.MONGODB_URI is set
    client,     \* module-level `client`; in Spec "none" or "created", in
                \* Concurrent the index in mongo of the object it refers to
                \* (0: undefined)
    database,   \* module-level `database`; in Spec TRUE once client.db(dbName)
                \* was stored, in Concurrent the index in mongo of the client
                \* whose handle it is (0: undefined)
    lessons,    \* collection 'lesson': hex id -> document (field name -> value)
    orders,     \* collection 'order': sequence of inserted documents
    pc,         \* position of the request being served: "idle", "busy", "done"
    req,        \* the request being served
    resp,       \* the response given to it
    calls,      \* storage calls issued while serving it, in order
    created     \* number of 201 responses given by POST /orders

\* the state of Concurrent
VARIABLES
    mongo,      \* the MongoClient objects created, in order of creation
    server,     \* "listening", "closed" once server.close() was called
    timer,      \* the 5 s exit timer of shutdown is armed
    exited,     \* process.exit(0) was called
    rq,         \* the PUT requests in flight: position and locals of each
    sg,         \* the signals: position of the shutdown each one started
    last        \* per lesson, the request whose updateOne was applied last

\* the variables only Concurrent changes, and those only Spec changes
cvars == <<mongo, server, timer, exited, rq, sg, last>>
svars == <<orders, pc, req, resp, calls, created>>

vars == <<uri, client, database, lessons, orders, pc, req, resp, calls, created, cvars>>

----------------------------------------------------------------------------
(* JavaScript values *)

Undefined == [t |-> "undefined"]
Null == [t |-> "null"]
Bool(b) == [t |-> "bool", b |-> b]
Str(s) == [t |-> "str", s |-> s]
Arr(a) == [t |-> "arr", a |-> a]
Obj(o) == [t |-> "obj", o |-> o]
ObjectIdOf(h) == [t |-> "oid", h |-> h]
DateNow == [t |-> "date"]

NaN == [t |-> "num", k |-> "nan", m |-> 0, e |-> 0]
Infinity == [t |-> "num", k |-> "inf", m |-> 1, e |-> 0]
NegInfinity == [t |-> "num", k |-> "inf", m |-> -1, e |-> 0]

RECURSIVE Pow10(_)
Pow10(n) == IF n = 0 THEN 1 ELSE 10 * Pow10(n - 1)

RECURSIVE Normalise(_, _)
Normalise(m, e) ==
    IF m = 0 THEN <<0, 0>>
    ELSE IF e > 0 /\ m % 10 = 0 THEN Normalise(m \div 10, e - 1)
    ELSE <<m, e>>

\* the finite number m * 10^(-e)
Dec(m, e) ==
    LET n == Normalise(m, e)
    IN  [t |-> "num", k |-> "fin", m |-> n[1], e |-> n[2]]

IntNum(n) == Dec(n, 0)

IsNum(v) == v.t = "num"
IsFiniteNum(v) == v.t = "num" /\ v.k = "fin"
IsIntegerNum(v) == IsFiniteNum(v) /\ v.e = 0

\* a < b on numbers; every comparison with NaN is false
NumLess(a, b) ==
    CASE a.k = "nan" \/ b.k = "nan" -> FALSE
      [] a.k = "inf" /\ b.k = "inf" -> a.m < b.m
      [] a.k = "inf" -> a.m < 0
      [] b.k = "inf" -> b.m > 0
      [] OTHER -> a.m * Pow10(b.e) < b.m * Pow10(a.e)

NumLeq(a, b) == a.k # "nan" /\ b.k # "nan" /\ ~NumLess(b, a)

----------------------------------------------------------------------------
(* Strings *)

Digits == <<"0", "1", "2", "3", "4", "5", "6", "7", "8", "9">>
DigitSet == {Digits[i] : i \in 1..10}
DigitVal(c) == (CHOOSE i \in 1..10 : Digits[i] = c) - 1

UpperSet == {"A", "B", "C", "D", "E", "F", "G", "H", "I", "J", "K", "L", "M",
             "N", "O", "P", "Q", "R", "S", "T", "U", "V", "W", "X", "Y", "Z"}
LowerSet == {"a", "b", "c", "d", "e", "f", "g", "h", "i", "j", "k", "l", "m",
             "n", "o", "p", "q", "r", "s", "t", "u", "v", "w", "x", "y", "z"}
HexSet == DigitSet \cup {"a", "b", "c", "d", "e", "f", "A", "B", "C", "D", "E", "F"}

RECURSIVE Rep(_, _)
Rep(c, n) == IF n = 0 THEN <<>> ELSE <<c>> \o Rep(c, n - 1)

RECURSIVE TrimLeft(_)
TrimLeft(s) == IF s # <<>> /\ Head(s) = " " THEN TrimLeft(Tail(s)) ELSE s

RECURSIVE TrimRight(_)
TrimRight(s) ==
    IF s # <<>> /\ s[Len(s)] = " " THEN TrimRight(SubSeq(s, 1, Len(s) - 1)) ELSE s

\* the term taken without trim()
Trim_None(s) == s

Trim(s) == TrimRight(TrimLeft(s))

AllIn(s, set) == \A i \in 1..Len(s) : s[i] \in set

RECURSIVE DigitsToInt(_)
DigitsToInt(s) ==
    IF s = <<>> THEN 0
    ELSE 10 * DigitsToInt(SubSeq(s, 1, Len(s) - 1)) + DigitVal(s[Len(s)])

RECURSIVE NatToDigits(_)
NatToDigits(n) ==
    IF n < 10 THEN <<Digits[n + 1]>>
    ELSE NatToDigits(n \div 10) \o <<Digits[(n % 10) + 1]>>

StrInfinity == <<"I", "n", "f", "i", "n", "i", "t", "y">>

\* StringToNumber of ECMAScript on the strings of the model: surrounding
\* white space is dropped, the empty string is 0, then an optional sign and
\* either Infinity or digits with an optional fraction.  Exponents and the
\* 0x/0o/0b prefixes are not used by the inputs of the model.
UnsignedToNumber(s) ==
    IF s = StrInfinity THEN Infinity
    ELSE LET dots == {i \in 1..Len(s) : s[i] = "."}
         IN  IF dots = {} THEN
                 IF s # <<>> /\ AllIn(s, DigitSet) THEN IntNum(DigitsToInt(s)) ELSE NaN
             ELSE IF Cardinality(dots) > 1 THEN NaN
             ELSE LET d == CHOOSE i \in dots : TRUE
                      ip == SubSeq(s, 1, d - 1)
                      fp == SubSeq(s, d + 1, Len(s))
                  IN  IF Len(ip) + Len(fp) > 0 /\ AllIn(ip, DigitSet) /\ AllIn(fp, DigitSet)
                      THEN Dec(DigitsToInt(ip \o fp), Len(fp))
                      ELSE NaN

Negate(n) == IF n.k = "nan" THEN n ELSE [n EXCEPT !.m = -n.m]

StringToNumber(s) ==
    LET w == Trim(s)
    IN  IF w = <<>> THEN IntNum(0)
        ELSE IF Head(w) = "-" THEN Negate(UnsignedToNumber(Tail(w)))
        ELSE IF Head(w) = "+" THEN UnsignedToNumber(Tail(w))
        ELSE UnsignedToNumber(w)

\* Number.prototype.toString on the numbers of the model
NumberToString(n) ==
    IF n.k = "nan" THEN <<"N", "a", "N">>
    ELSE IF n.k = "inf" THEN (IF n.m < 0 THEN <<"-">> ELSE <<>>) \o StrInfinity
    ELSE LET a == IF n.m < 0 THEN -n.m ELSE n.m
             sign == IF n.m < 0 THEN <<"-">> ELSE <<>>
             fr == NatToDigits(a % Pow10(n.e))
         IN  IF n.e = 0 THEN sign \o NatToDigits(a)
             ELSE sign \o NatToDigits(a \div Pow10(n.e)) \o <<".">>
                       \o Rep("0", n.e - Len(fr)) \o fr

----------------------------------------------------------------------------
(* Coercions *)

StrOf(name) ==
    CASE name = "null" -> <<"n", "u", "l", "l">>
      [] name = "undefined" -> <<"u", "n", "d", "e", "f", "i", "n", "e", "d">>
      [] name = "true" -> <<"t", "r", "u", "e">>
      [] name = "false" -> <<"f", "a", "l", "s", "e">>
      [] name = "object" -> <<"[", "o", "b", "j", "e", "c", "t", " ",
                              "O", "b", "j", "e", "c", "t", "]">>

\* String(v)
RECURSIVE StringOf(_)
RECURSIVE Join(_)
Join(a) ==
    IF a = <<>> THEN <<>>
    ELSE LET h == IF Head(a).t \in {"null", "undefined"} THEN <<>> ELSE StringOf(Head(a))
         IN  IF Len(a) = 1 THEN h ELSE h \o <<",">> \o Join(Tail(a))

StringOf(v) ==
    CASE v.t = "str" -> v.s
      [] v.t = "null" -> StrOf("null")
      [] v.t = "undefined" -> StrOf("undefined")
      [] v.t = "bool" -> IF v.b THEN StrOf("true") ELSE StrOf("false")
      [] v.t = "num" -> NumberToString(v)
      [] v.t = "arr" -> Join(v.a)
      [] v.t = "obj" -> StrOf("object")
      [] v.t = "oid" -> v.h

\* Number(v)
ToNumber(v) ==
    CASE v.t = "num" -> v
      [] v.t = "undefined" -> NaN
      [] v.t = "null" -> IntNum(0)
      [] v.t = "bool" -> IF v.b THEN IntNum(1) ELSE IntNum(0)
      [] v.t = "str" -> StringToNumber(v.s)
      [] v.t \in {"arr", "obj"} -> StringToNumber(StringOf(v))

\* the value as a condition: if (v), v || w
Truthy(v) ==
    CASE v.t \in {"undefined", "null"} -> FALSE
      [] v.t = "bool" -> v.b
      [] v.t = "num" -> v.k # "nan" /\ v.m # 0
      [] v.t = "str" -> v.s # <<>>
      [] OTHER -> TRUE

OrElse(v, w) == IF Truthy(v) THEN v ELSE w

\* v.key throws a TypeError when v is null or undefined
PropThrows(v) == v.t \in {"undefined", "null"}

\* v.key for the keys the code reads (none of them is a property of a
\* string, a number, a boolean or an array)
Prop(v, key) ==
    IF v.t = "obj" /\ key \in DOMAIN v.o THEN v.o[key] ELSE Undefined

\* new ObjectId(String(id)) accepts the 24-digit hexadecimal strings
IsObjectIdHex(s) == Len(s) = 24 /\ AllIn(s, HexSet)

ToLowerHex(c) ==
    CASE c = "A" -> "a" [] c = "B" -> "b" [] c = "C" -> "c"
      [] c = "D" -> "d" [] c = "E" -> "e" [] c = "F" -> "f" [] OTHER -> c

\* the identifier a valid string denotes: its twelve bytes, written in
\* lower case
HexOf(s) == [i \in 1..Len(s) |-> ToLowerHex(s[i])]

toObjectIdSafe(id) ==
    IF IsObjectIdHex(StringOf(id)) THEN ObjectIdOf(HexOf(StringOf(id))) ELSE Null

----------------------------------------------------------------------------
(* Order normaliser *)

NameChars == UpperSet \cup LowerSet \cup {" "}

\* the test without its anchors: /[A-Za-z ]+/
nameOk_Unanchored(name) ==
    name.t = "str" /\ \E i \in 1..Len(name.s) : name.s[i] \in NameChars

\* typeof name === 'string' && /^[A-Za-z ]+$/.test(name)
nameOk(name) == name.t = "str" /\ name.s # <<>> /\ AllIn(name.s, NameChars)

\* typeof phone === 'string' && /^[0-9]+$/.test(phone)
phoneOk(phone) == phone.t = "str" /\ phone.s # <<>> /\ AllIn(phone.s, DigitSet)

\* Number.isFinite(n) && n > 0, as the code's !Number.isFinite(n) || n <= 0
IsPositive(n) == IsFiniteNum(n) /\ ~NumLeq(n, IntNum(0))

\* the loop over items: the first element that stops it decides
RECURSIVE CheckItems(_)
CheckItems(items) ==
    IF items = <<>> THEN "ok"
    ELSE IF PropThrows(Head(items)) THEN "throw"
    ELSE IF ~IsPositive(ToNumber(Prop(Head(items), "space"))) THEN "error"
    ELSE CheckItems(Tail(items))

\* the callback of items.map
NormaliseItem(it) ==
    LET id == OrElse(OrElse(Prop(it, "lessonId"), Prop(it, "lessonID")), Prop(it, "id"))
        oid == toObjectIdSafe(id)
    IN  Obj([lessonId |-> IF Truthy(oid) THEN oid ELSE Str(StringOf(id)),
             space |-> ToNumber(Prop(it, "space"))])

\* the callback of lessonIDs.map
NormaliseId(id) == OrElse(toObjectIdSafe(id), Str(StringOf(id)))

ItemizedDoc(name, phone, items) ==
    [name |-> name, phone |-> phone,
     items |-> Arr([i \in 1..Len(items) |-> NormaliseItem(items[i])]),
     createdAt |-> DateNow]

\* the document with the space as it was sent
BatchDoc_RawSpace(name, phone, lessonIDs, space) ==
    [name |-> name, phone |-> phone,
     lessonIDs |-> Arr([i \in 1..Len(lessonIDs) |-> NormaliseId(lessonIDs[i])]),
     space |-> space,
     createdAt |-> DateNow]

\* const s = Number(space); { name, phone, lessonIDs: ids, space: s, createdAt }
BatchDoc(name, phone, lessonIDs, space) ==
    [name |-> name, phone |-> phone,
     lessonIDs |-> Arr([i \in 1..Len(lessonIDs) |-> NormaliseId(lessonIDs[i])]),
     space |-> ToNumber(space),
     createdAt |-> DateNow]

IsNonEmptyArray(v) == v.t = "arr" /\ Len(v.a) # 0

\* which of the two branches of buildOrderDoc a payload takes, the first
\* condition that holds deciding
OrderShape_BatchFirst(items, lessonIDs, space) ==
    IF IsNonEmptyArray(lessonIDs) /\ space.t # "undefined" THEN "batch"
    ELSE IF IsNonEmptyArray(items) THEN "items"
    ELSE "none"

OrderShape(items, lessonIDs, space) ==
    IF IsNonEmptyArray(items) THEN "items"
    ELSE IF IsNonEmptyArray(lessonIDs) /\ space.t # "undefined" THEN "batch"
    ELSE "none"

ErrorResult(msg) == [k |-> "error", error |-> msg, doc |-> <<>>]
DocResult(doc) == [k |-> "doc", error |-> "", doc |-> doc]
Thrown == [k |-> "throw", error |-> "", doc |-> <<>>]

buildOrderDoc(body) ==
    LET b == OrElse(body, Obj(<<>>))
        name == Prop(b, "name")
        phone == Prop(b, "phone")
        lessonIDs == Prop(b, "lessonIDs")
        space == Prop(b, "space")
        items == Prop(b, "items")
        shape == OrderShape(items, lessonIDs, space)
    IN  IF ~nameOk(name) \/ ~phoneOk(phone) THEN ErrorResult("Invalid name or phone")
        ELSE IF shape = "items" THEN
            CASE CheckItems(items.a) = "throw" -> Thrown
              [] CheckItems(items.a) = "error" ->
                    ErrorResult("Each item.space must be a positive number")
              [] OTHER -> DocResult(ItemizedDoc(name, phone, items.a))
        ELSE IF shape = "batch" THEN
            IF ~IsPositive(ToNumber(space))
            THEN ErrorResult("space must be a positive number")
            ELSE DocResult(BatchDoc(name, phone, lessonIDs.a, space))
        ELSE ErrorResult("Provide items[] or lessonIDs[] with space")

----------------------------------------------------------------------------
(* Storage connection *)

\* getDb(): the handle is reused once stored; otherwise a client is created
\* and connected, which the storage may refuse
getDb(connects) ==
    IF database THEN [ok |-> TRUE, client |-> client, database |-> TRUE]
    ELSE IF ~uri THEN [ok |-> FALSE, client |-> client, database |-> FALSE]
    ELSE IF connects THEN [ok |-> TRUE, client |-> "created", database |-> TRUE]
    ELSE [ok |-> FALSE, client |-> "created", database |-> FALSE]

----------------------------------------------------------------------------
(* Requests and responses *)

NoQuery == [term |-> Undefined, limit |-> Undefined, skip |-> Undefined,
            sort |-> Undefined, order |-> Undefined]

Request(method, path, id, query, body) ==
    [method |-> method, path |-> path, id |-> id, query |-> query, body |-> body]

NoRequest == Request("", "", <<>>, NoQuery, Undefined)

\* res.status(status).json({ error })
ErrorResponse(status, msg) == [status |-> status, error |-> msg, body |-> Undefined]

\* res.status(status).json(body)
JsonResponse(status, body) == [status |-> status, error |-> "", body |-> body]

NoResponse == [status |-> 0, error |-> "", body |-> Undefined]

Call(op, arg) == [op |-> op, arg |-> arg]

Ops(cs) == {cs[i].op : i \in 1..Len(cs)}

\* { ...a, ...b }
Merge(a, b) ==
    [k \in DOMAIN a \cup DOMAIN b |-> IF k \in DOMAIN b THEN b[k] ELSE a[k]]

Without(o, key) == [k \in DOMAIN o \ {key} |-> o[k]]

\* the identifier the driver gives to the n-th inserted order
GeneratedId(n) == ObjectIdOf(<<"#">> \o NatToDigits(n))

----------------------------------------------------------------------------
(* POST /orders *)

\* an insert that is sent twice
InsertOne_Twice(coll, doc) == Append(Append(coll, doc), doc)

\* collection('order').insertOne(doc)
InsertOne(coll, doc) == Append(coll, doc)

PostOrders ==
    /\ pc = "busy" /\ req.method = "POST" /\ req.path = "/orders"
    /\ pc' = "done"
    /\ UNCHANGED <<cvars, uri, lessons, req>>
    /\ LET r == buildOrderDoc(req.body)
       IN  CASE r.k = "throw" ->
                  /\ resp' = ErrorResponse(500, "Failed to create order")
                  /\ calls' = <<>>
                  /\ UNCHANGED <<client, database, orders, created>>
             [] r.k = "error" ->
                  /\ resp' = ErrorResponse(400, r.error)
                  /\ calls' = <<>>
                  /\ UNCHANGED <<client, database, orders, created>>
             [] r.k = "doc" ->
                  \E connects \in BOOLEAN, inserts \in BOOLEAN :
                     LET g == getDb(connects)
                         stored == Merge(r.doc, [_id |-> GeneratedId(Len(orders) + 1)])
                     IN  /\ client' = g.client
                         /\ database' = g.database
                         /\ IF ~g.ok THEN
                                /\ resp' = ErrorResponse(500, "Failed to create order")
                                /\ calls' = <<Call("getDb", <<>>)>>
                                /\ UNCHANGED <<orders, created>>
                            ELSE IF ~inserts THEN
                                /\ resp' = ErrorResponse(500, "Failed to create order")
                                /\ calls' = <<Call("getDb", <<>>), Call("insertOne", r.doc)>>
                                /\ UNCHANGED <<orders, created>>
                            ELSE
                                /\ orders' = InsertOne(orders, stored)
                                /\ resp' = JsonResponse(201,
                                      Obj(Merge([insertedId |-> stored._id], stored)))
                                /\ calls' = <<Call("getDb", <<>>), Call("insertOne", r.doc)>>
                                /\ created' = created + 1

----------------------------------------------------------------------------
(* PUT /lessons/:id *)

\* Object.assign({}, req.body): the own properties of the body; those of an
\* array are its indices
AssignFrom(body) ==
    CASE body.t = "obj" -> body.o
      [] body.t = "arr" ->
            [k \in {Digits[i] : i \in 1..Len(body.a)} |-> body.a[DigitVal(k) + 1]]
      [] OTHER -> <<>>

\* update.space != null
HasSpace(update) == Prop(Obj(update), "space").t \notin {"undefined", "null"}

\* the update taken without `update.space = n`
CoerceSpace_Raw(update) == update

\* if (update.space != null) { ...; update.space = n }
CoerceSpace(update) ==
    IF HasSpace(update)
    THEN Merge(update, [space |-> ToNumber(update["space"])])
    ELSE update

\* an update with upsert: true
SetFields_Upsert(coll, hex, update) ==
    IF hex \in DOMAIN coll
    THEN [coll EXCEPT ![hex] = Merge(coll[hex], update)]
    ELSE [h \in DOMAIN coll \cup {hex} |-> IF h = hex THEN update ELSE coll[h]]

\* an update whose filter is dropped: updateMany({}, { $set: update })
SetFields_AllDocs(coll, hex, update) ==
    IF hex \in DOMAIN coll
    THEN [h \in DOMAIN coll |-> Merge(coll[h], update)]
    ELSE coll

\* updateOne({ _id: oid }, { $set: update }) on the collection
SetFields(coll, hex, update) ==
    IF hex \in DOMAIN coll
    THEN [coll EXCEPT ![hex] = Merge(coll[hex], update)]
    ELSE coll

\* findOne({ _id: oid })
FindOne(coll, hex) ==
    IF hex \in DOMAIN coll
    THEN Obj(Merge([_id |-> ObjectIdOf(hex)], coll[hex]))
    ELSE Null

PutLesson ==
    /\ pc = "busy" /\ req.method = "PUT" /\ req.path = "/lessons/:id"
    /\ pc' = "done"
    /\ UNCHANGED <<cvars, uri, orders, created, req>>
    /\ LET update == Without(AssignFrom(req.body), "_id")
           hex == HexOf(req.id)
       IN  IF ~IsObjectIdHex(req.id) THEN
               /\ resp' = ErrorResponse(400, "Invalid id")
               /\ calls' = <<>>
               /\ UNCHANGED <<client, database, lessons>>
           ELSE IF HasSpace(update) /\ ~IsFiniteNum(ToNumber(update["space"])) THEN
               /\ resp' = ErrorResponse(400, "space must be a number")
               /\ calls' = <<>>
               /\ UNCHANGED <<client, database, lessons>>
           ELSE \E connects \in BOOLEAN, updates \in BOOLEAN, finds \in BOOLEAN :
               LET g == getDb(connects)
                   set == CoerceSpace(update)
                   after == SetFields(lessons, hex, set)
               IN  /\ client' = g.client
                   /\ database' = g.database
                   /\ IF ~g.ok THEN
                          /\ resp' = ErrorResponse(500, "Failed to update lesson")
                          /\ calls' = <<Call("getDb", <<>>)>>
                          /\ UNCHANGED lessons
                      ELSE IF ~updates THEN
                          /\ resp' = ErrorResponse(500, "Failed to update lesson")
                          /\ calls' = <<Call("getDb", <<>>), Call("updateOne", <<hex, set>>)>>
                          /\ UNCHANGED lessons
                      ELSE IF hex \notin DOMAIN lessons THEN
                          /\ resp' = ErrorResponse(404, "Lesson not found")
                          /\ calls' = <<Call("getDb", <<>>), Call("updateOne", <<hex, set>>)>>
                          /\ lessons' = after
                      ELSE IF ~finds THEN
                          /\ resp' = ErrorResponse(500, "Failed to update lesson")
                          /\ calls' = <<Call("getDb", <<>>), Call("updateOne", <<hex, set>>),
                                        Call("findOne", hex)>>
                          /\ lessons' = after
                      ELSE
                          /\ resp' = JsonResponse(200, FindOne(after, hex))
                          /\ calls' = <<Call("getDb", <<>>), Call("updateOne", <<hex, set>>),
                                        Call("findOne", hex)>>
                          /\ lessons' = after

----------------------------------------------------------------------------
(* The storage's find: ordering and matching *)

\* the characters of the model's strings in code-point order
CharOrder ==
    <<" ", "#", "$", "(", ")", "*", "+", ",", "-", ".">> \o Digits \o
    <<"?", "A", "B", "C", "D", "E", "F", "G", "H", "I", "J", "K", "L", "M",
      "N", "O", "P", "Q", "R", "S", "T", "U", "V", "W", "X", "Y", "Z",
      "[", "\\", "]", "^", "_",
      "a", "b", "c", "d", "e", "f", "g", "h", "i", "j", "k", "l", "m",
      "n", "o", "p", "q", "r", "s", "t", "u", "v", "w", "x", "y", "z",
      "{", "|", "}">>

CharCode(c) == CHOOSE i \in 1..Len(CharOrder) : CharOrder[i] = c

ToLowerChar(c) ==
    IF c \in UpperSet THEN CharOrder[CharCode(c) + (CharCode("a") - CharCode("A"))] ELSE c

ToLowerCase(s) == [i \in 1..Len(s) |-> ToLowerChar(s[i])]

RECURSIVE StrLess(_, _)
StrLess(a, b) ==
    IF b = <<>> THEN FALSE
    ELSE IF a = <<>> THEN TRUE
    ELSE IF Head(a) # Head(b) THEN CharCode(Head(a)) < CharCode(Head(b))
    ELSE StrLess(Tail(a), Tail(b))

\* the storage's order of values of different types: null (and a missing
\* field), numbers, strings, identifiers
TypeRank(v) ==
    CASE v.t \in {"undefined", "null"} -> 1
      [] v.t = "num" -> 2
      [] v.t = "str" -> 3
      [] v.t = "oid" -> 4

ValueLess(a, b) ==
    IF TypeRank(a) # TypeRank(b) THEN TypeRank(a) < TypeRank(b)
    ELSE CASE a.t = "num" -> NumLess(a, b)
           [] a.t = "str" -> StrLess(a.s, b.s)
           [] a.t = "oid" -> StrLess(a.h, b.h)
           [] OTHER -> FALSE

Min(a, b) == IF a < b THEN a ELSE b
Max(a, b) == IF a < b THEN b ELSE a

\* find({}).sort({ [key]: dir }).skip(sk).limit(lim).toArray(): the storage
\* returns the documents in any order that respects the sort
FindSorted(coll, key, dir, sk, lim) ==
    LET ids == DOMAIN coll
        n == Cardinality(ids)
        field(h) == IF key = "_id" THEN ObjectIdOf(h) ELSE Prop(Obj(coll[h]), key)
        inOrder(p) == \A i \in 1..(n - 1) :
                         IF dir = 1 THEN ~ValueLess(field(p[i + 1]), field(p[i]))
                                    ELSE ~ValueLess(field(p[i]), field(p[i + 1]))
        orders0 == {p \in [1..n -> ids] : (\A i, j \in 1..n : i # j => p[i] # p[j]) /\ inOrder(p)}
    IN  {Arr([i \in 1..Max(0, Min(n - sk, lim)) |-> FindOne(coll, p[sk + i])]) : p \in orders0}

\* escapeRegex(s): a backslash before each of . * + ? ^ $ { } ( ) | [ ] \
RegexMeta == {".", "*", "+", "?", "^", "$", "{", "}", "(", ")", "|", "[", "]", "\\"}

RECURSIVE EscapeChars(_)
EscapeChars(s) ==
    IF s = <<>> THEN <<>>
    ELSE (IF Head(s) \in RegexMeta THEN <<"\\", Head(s)>> ELSE <<Head(s)>>)
         \o EscapeChars(Tail(s))

escapeRegex(v) == EscapeChars(StringOf(v))

\* the literal a pattern without unescaped metacharacters stands for
RECURSIVE Literal(_)
Literal(p) ==
    IF p = <<>> THEN <<>>
    ELSE IF Head(p) = "\\" /\ Len(p) > 1 THEN <<p[2]>> \o Literal(SubSeq(p, 3, Len(p)))
    ELSE <<Head(p)>> \o Literal(Tail(p))

Contains(s, x) ==
    \E i \in 0..(Len(s) - Len(x)) : SubSeq(s, i + 1, i + Len(x)) = x

\* a match of the pattern, with option 'i', somewhere in the input
RegexMatch(input, pattern) == Contains(ToLowerCase(input), ToLowerCase(Literal(pattern)))

\* $toString of the storage: null for null or a missing field
CanToString(v) == v.t \in {"num", "str", "bool", "oid"}

\* the $or of the search over one document
SearchMatches(doc, pattern) ==
    \/ \E key \in {"topic", "location"} :
          /\ Prop(Obj(doc), key).t = "str"
          /\ RegexMatch(Prop(Obj(doc), key).s, pattern)
    \/ \E key \in {"price", "space"} :
          /\ CanToString(Prop(Obj(doc), key))
          /\ RegexMatch(StringOf(Prop(Obj(doc), key)), pattern)

\* find({ $or: [...] }).toArray()
FindMatching(coll, pattern) ==
    LET ids == {h \in DOMAIN coll : SearchMatches(coll[h], pattern)}
        n == Cardinality(ids)
    IN  {Arr([i \in 1..n |-> FindOne(coll, p[i])]) :
            p \in {q \in [1..n -> ids] : \A i, j \in 1..n : i # j => q[i] # q[j]}}

----------------------------------------------------------------------------
(* GET /lessons, GET /search, GET /lessons/:id *)

\* Math.min and Math.max
MathMin(a, b) == IF a.k = "nan" \/ b.k = "nan" THEN NaN ELSE IF NumLess(b, a) THEN b ELSE a
MathMax(a, b) == IF a.k = "nan" \/ b.k = "nan" THEN NaN ELSE IF NumLess(a, b) THEN b ELSE a

\* Math.min(100, Math.max(1, Number(limit) || 50))
LimitOf(limit) == MathMin(IntNum(100), MathMax(IntNum(1), OrElse(ToNumber(limit), IntNum(50))))

\* Math.max(0, Number(skip) || 0)
SkipOf(skip) == MathMax(IntNum(0), OrElse(ToNumber(skip), IntNum(0)))

\* the own properties of `sortable`
Sortable ==
    [topic |-> <<"t", "o", "p", "i", "c">>,
     location |-> <<"l", "o", "c", "a", "t", "i", "o", "n">>,
     price |-> <<"p", "r", "i", "c", "e">>,
     space |-> <<"s", "p", "a", "c", "e">>,
     _id |-> <<"_", "i", "d">>]

\* Object.prototype.hasOwnProperty.call(sortable, sort) ? sort : '_id'
SortKeyOf(sort) ==
    IF \E k \in DOMAIN Sortable : Sortable[k] = StringOf(sort)
    THEN CHOOSE k \in DOMAIN Sortable : Sortable[k] = StringOf(sort)
    ELSE "_id"

\* order === 'desc' ? -1 : 1, the comparison without toLowerCase
SortDirOf_CaseSensitive(order) == IF StringOf(order) = <<"d", "e", "s", "c">> THEN -1 ELSE 1

\* String(order).toLowerCase() === 'desc' ? -1 : 1
SortDirOf(order) == IF ToLowerCase(StringOf(order)) = <<"d", "e", "s", "c">> THEN -1 ELSE 1

GetLessons ==
    /\ pc = "busy" /\ req.method = "GET" /\ req.path = "/lessons"
    /\ pc' = "done"
    /\ UNCHANGED <<cvars, uri, lessons, orders, created, req>>
    /\ \E connects \in BOOLEAN, finds \in BOOLEAN :
          LET g == getDb(connects)
              lim == LimitOf(req.query.limit)
              sk == SkipOf(req.query.skip)
              sortKey == SortKeyOf(req.query.sort)
              sortDir == SortDirOf(req.query.order)
              cursor == [sort |-> sortKey, dir |-> sortDir, skip |-> sk, limit |-> lim]
          IN  /\ client' = g.client
              /\ database' = g.database
              /\ IF ~g.ok THEN
                     /\ resp' = ErrorResponse(500, "Failed to fetch lessons")
                     /\ calls' = <<Call("getDb", <<>>)>>
                 ELSE IF ~finds \/ ~IsIntegerNum(lim) \/ ~IsIntegerNum(sk) THEN
                     /\ resp' = ErrorResponse(500, "Failed to fetch lessons")
                     /\ calls' = <<Call("getDb", <<>>), Call("find", cursor)>>
                 ELSE
                     /\ \E found \in FindSorted(lessons, sortKey, sortDir, sk.m, lim.m) :
                           resp' = JsonResponse(200, found)
                     /\ calls' = <<Call("getDb", <<>>), Call("find", cursor)>>

GetSearch ==
    /\ pc = "busy" /\ req.method = "GET" /\ req.path = "/search"
    /\ pc' = "done"
    /\ UNCHANGED <<cvars, uri, lessons, orders, created, req>>
    /\ LET termRaw == StringOf(OrElse(req.query.term, Str(<<>>)))
           term == Trim(termRaw)
           reStr == escapeRegex(Str(term))
       IN  IF term = <<>> THEN
               /\ resp' = JsonResponse(200, Arr(<<>>))
               /\ calls' = <<>>
               /\ UNCHANGED <<client, database>>
           ELSE \E connects \in BOOLEAN, finds \in BOOLEAN :
               LET g == getDb(connects)
               IN  /\ client' = g.client
                   /\ database' = g.database
                   /\ IF ~g.ok THEN
                          /\ resp' = ErrorResponse(500, "Failed to search lessons")
                          /\ calls' = <<Call("getDb", <<>>)>>
                      ELSE IF ~finds THEN
                          /\ resp' = ErrorResponse(500, "Failed to search lessons")
                          /\ calls' = <<Call("getDb", <<>>), Call("find", reStr)>>
                      ELSE
                          /\ \E found \in FindMatching(lessons, reStr) :
                                resp' = JsonResponse(200, found)
                          /\ calls' = <<Call("getDb", <<>>), Call("find", reStr)>>

GetLesson ==
    /\ pc = "busy" /\ req.method = "GET" /\ req.path = "/lessons/:id"
    /\ pc' = "done"
    /\ UNCHANGED <<cvars, uri, lessons, orders, created, req>>
    /\ LET hex == HexOf(req.id)
       IN  IF ~IsObjectIdHex(req.id) THEN
               /\ resp' = ErrorResponse(400, "Invalid id")
               /\ calls' = <<>>
               /\ UNCHANGED <<client, database>>
           ELSE \E connects \in BOOLEAN, finds \in BOOLEAN :
               LET g == getDb(connects)
               IN  /\ client' = g.client
                   /\ database' = g.database
                   /\ IF ~g.ok THEN
                          /\ resp' = ErrorResponse(500, "Failed to fetch lesson")
                          /\ calls' = <<Call("getDb", <<>>)>>
                      ELSE IF ~finds THEN
                          /\ resp' = ErrorResponse(500, "Failed to fetch lesson")
                          /\ calls' = <<Call("getDb", <<>>), Call("findOne", hex)>>
                      ELSE IF ~Truthy(FindOne(lessons, hex)) THEN
                          /\ resp' = ErrorResponse(404, "Lesson not found")
                          /\ calls' = <<Call("getDb", <<>>), Call("findOne", hex)>>
                      ELSE
                          /\ resp' = JsonResponse(200, FindOne(lessons, hex))
                          /\ calls' = <<Call("getDb", <<>>), Call("findOne", hex)>>

----------------------------------------------------------------------------
(* The requests of the model *)

MaxOrders == 1

IdA == Rep("a", 24)
IdB == Rep("b", 24)
IdC == Rep("c", 24)
IdUpperA == Rep("A", 24)
IdShort == <<"a", "1">>
IdNotHex == Rep("g", 24)

PathIds == {IdA, IdB, IdC, IdUpperA, IdShort, IdNotHex}

GoodName == Str(<<"J", "o", " ", "D">>)
GoodPhone == Str(<<"0", "7">>)

Names == {GoodName, Undefined, IntNum(5), Str(<<>>), Str(<<"J", "0">>)}
Phones == {GoodPhone, Undefined, IntNum(7), Str(<<"7", "a">>)}

GoodItem == Obj([lessonId |-> Str(IdA), space |-> IntNum(2)])
StringItem == Obj([id |-> Str(<<"L", "1">>), space |-> Str(<<"2">>)])
ZeroItem == Obj([lessonId |-> Str(IdB), space |-> IntNum(0)])
TextItem == Obj([lessonId |-> Str(IdB), space |-> Str(<<"t", "w", "o">>)])
NoSpaceItem == Obj([lessonId |-> Str(IdB)])

ItemLists ==
    {<<GoodItem>>, <<GoodItem, StringItem>>,
     <<ZeroItem>>, <<GoodItem, ZeroItem>>, <<TextItem, GoodItem>>,
     <<GoodItem, GoodItem, NoSpaceItem>>, <<IntNum(3)>>, <<Str(<<"x">>), GoodItem>>,
     <<Null>>, <<GoodItem, Null>>, <<Null, ZeroItem>>, <<ZeroItem, Null>>}

NoItems == {Undefined, Arr(<<>>), Str(<<"x">>)}

BatchIds == {Undefined, Arr(<<>>), Str(IdA), Arr(<<Str(IdB), Str(<<"L", "1">>), IntNum(5)>>)}

OrderSpaces ==
    {Undefined, Null, IntNum(2), Str(<<"2">>), Str(<<" ", "2", ".", "5", "0">>),
     IntNum(0), IntNum(-1), Str(<<"t", "w", "o">>), Infinity}

\* a JSON object with the fields that are present
Body(name, phone, items, lessonIDs, space) ==
    LET all == [name |-> name, phone |-> phone, items |-> items,
                lessonIDs |-> lessonIDs, space |-> space]
    IN  Obj([k \in {f \in DOMAIN all : all[f].t # "undefined"} |-> all[k]])

OrderBodies ==
    {Undefined, Arr(<<GoodName>>)}
    \cup {Body(n, p, sh[1], sh[2], sh[3]) :
            n \in Names, p \in Phones,
            sh \in {<<Arr(<<GoodItem>>), Undefined, Undefined>>,
                    <<Undefined, Arr(<<Str(IdA)>>), IntNum(2)>>,
                    <<Arr(<<Null>>), Undefined, Undefined>>}}
    \cup {Body(GoodName, GoodPhone, Arr(l), b[1], b[2]) :
            l \in ItemLists, b \in {<<Undefined, Undefined>>, <<Arr(<<Str(IdB)>>), IntNum(3)>>}}
    \cup {Body(GoodName, GoodPhone, i, l, s) :
            i \in NoItems, l \in BatchIds, s \in OrderSpaces}

LessonSpaces ==
    {Undefined, Null, IntNum(7), Str(<<"7">>), Arr(<<IntNum(7)>>), IntNum(-1),
     Str(<<"1", ".", "5">>), Str(<<"t", "w", "o">>), Infinity, Obj(<<>>)}

SpaceBody(s) == Obj([k \in (IF s.t = "undefined" THEN {} ELSE {"space"}) |-> s])

LessonBodies ==
    {Undefined}
    \cup {SpaceBody(s) : s \in LessonSpaces}
    \cup {Obj([_id |-> Str(IdB), space |-> IntNum(7)])}

\* the second lesson is sent fewer updates
FewLessonBodies == {SpaceBody(Null), SpaceBody(Str(<<"7">>)), SpaceBody(Str(<<"t", "w", "o">>))}

Terms == {Undefined, Str(<<>>), Str(<<" ", " ">>), Str(<<"a">>), Str(<<"1", ".">>)}

\* values of ?limit= and ?skip=
Limits ==
    {Undefined, Str(<<"1">>), Str(<<"5", "0", "0">>), Str(<<"0">>), Str(<<"-", "5">>),
     Str(<<"a", "b", "c">>)}

Skips == {Undefined, Str(<<"1">>), Str(<<"-", "5">>), Str(<<"a", "b", "c">>)}

\* values of ?sort= and ?order=
SortParams ==
    {Undefined, Str(<<"s", "p", "a", "c", "e">>), Str(<<"p", "r", "i", "c", "e">>),
     Str(<<"S", "p", "a", "c", "e">>), Str(<<"n", "a", "m", "e">>),
     Str(<<"c", "o", "n", "s", "t", "r", "u", "c", "t", "o", "r">>),
     Str(<<"_", "_", "p", "r", "o", "t", "o", "_", "_">>)}

OrderParams ==
    {Undefined, Str(<<"d", "e", "s", "c">>), Str(<<"D", "E", "S", "C">>),
     Str(<<"a", "s", "c">>), Str(<<"d", "e", "s", "c", "e", "n", "d">>)}

Queries ==
    {[NoQuery EXCEPT !.limit = l] : l \in Limits}
    \cup {[NoQuery EXCEPT !.skip = s] : s \in Skips}
    \cup {[NoQuery EXCEPT !.sort = k, !.order = o] : k \in SortParams, o \in OrderParams}
    \cup {[NoQuery EXCEPT !.limit = Str(<<"1">>), !.skip = Str(<<"1">>),
                          !.sort = Str(<<"s", "p", "a", "c", "e">>),
                          !.order = Str(<<"D", "E", "S", "C">>)]}

Requests ==
    {Request("POST", "/orders", <<>>, NoQuery, b) : b \in OrderBodies}
    \cup {Request("PUT", "/lessons/:id", id, NoQuery, b) : id \in PathIds \ {IdB}, b \in LessonBodies}
    \cup {Request("PUT", "/lessons/:id", IdB, NoQuery, b) : b \in FewLessonBodies}
    \cup {Request("GET", "/lessons/:id", id, NoQuery, Undefined) : id \in PathIds}
    \cup {Request("GET", "/search", <<>>, [NoQuery EXCEPT !.term = t], Undefined) : t \in Terms}
    \cup {Request("GET", "/lessons", <<>>, q, Undefined) : q \in Queries}

----------------------------------------------------------------------------
(* The server *)

InitialLessons ==
    (IdA :> [topic |-> Str(<<"A", "r", "t">>), location |-> Str(<<"H", "u", "b">>),
             price |-> IntNum(10), space |-> IntNum(5)])
    @@ (IdB :> [topic |-> Str(<<"M", "a", "t", "h">>), location |-> Str(<<"L", "a", "b">>),
                price |-> Dec(125, 1), space |-> IntNum(0)])

MaxRequests == 2
MaxSignals == 2

\* a request that has not arrived: its locals oid, update and db are unset,
\* own is the MongoClient its getDb call created
NoPut ==
    [pc |-> "new", body |-> Undefined, oid |-> <<>>, update |-> <<>>, own |-> 0, db |-> 0,
     over |-> FALSE, resp |-> NoResponse]

\* the process listens, no client was created, no signal has arrived
NothingInFlight ==
    /\ mongo = <<>>
    /\ server = "listening"
    /\ timer = FALSE
    /\ exited = FALSE
    /\ rq = [r \in 1..MaxRequests |-> NoPut]
    /\ sg = [s \in 1..MaxSignals |-> "none"]
    /\ last = [h \in DOMAIN InitialLessons |-> 0]

Init ==
    /\ uri \in BOOLEAN
    /\ client = "none"
    /\ database = FALSE
    /\ lessons = InitialLessons
    /\ orders = <<>>
    /\ pc = "idle"
    /\ req = NoRequest
    /\ resp = NoResponse
    /\ calls = <<>>
    /\ created = 0
    /\ NothingInFlight

\* a request arrives and is routed to its handler
Receive ==
    /\ pc = "idle"
    /\ \E r \in Requests :
          /\ r.method = "POST" => Len(orders) < MaxOrders
          /\ req' = r
    /\ pc' = "busy"
    /\ UNCHANGED <<cvars, uri, client, database, lessons, orders, resp, calls, created>>

\* the response is sent: the 'finish' event of the request logger
Finish ==
    /\ pc = "done"
    /\ pc' = "idle"
    /\ req' = NoRequest
    /\ resp' = NoResponse
    /\ calls' = <<>>
    /\ UNCHANGED <<cvars, uri, client, database, lessons, orders, created>>

Next ==
    \/ Receive
    \/ PostOrders
    \/ PutLesson
    \/ GetLessons
    \/ GetSearch
    \/ GetLesson
    \/ Finish

Spec == Init /\ [][Next]_vars

----------------------------------------------------------------------------
(* The server with requests in flight together, and its shutdown *)

\* the PUT requests sent: the same lesson, different values
ConcurrentIds == {IdA}
ConcurrentBodies ==
    {SpaceBody(IntNum(7)),
     Obj([space |-> Str(<<"8">>), topic |-> Str(<<"Z", "e", "n">>)])}

InFlight(r) == rq[r].pc \notin {"new", "done"}

\* res.status(..).json(..) of request r
Answer(r, response) == [rq EXCEPT ![r].pc = "done", ![r].resp = response]

\* new MongoClient(uri): not connected, close() not called on it
NewMongoClient == [connected |-> FALSE, closes |-> 0]

\* a call on the handle of client k is served for sure: the client is
\* connected and open; otherwise the driver may reject the call or
\* (re)connect by itself, depending on its version
Usable(k) == mongo[k].connected /\ mongo[k].closes = 0

ConcurrentInit ==
    /\ uri \in BOOLEAN
    /\ client = 0
    /\ database = 0
    /\ lessons = InitialLessons
    /\ orders = <<>>
    /\ pc = "idle"
    /\ req = NoRequest
    /\ resp = NoResponse
    /\ calls = <<>>
    /\ created = 0
    /\ NothingInFlight

\* a PUT arrives (the requests are numbered in their order of arrival): the
\* handler runs up to its first await that waits, which is in getDb
\* (client.connect()) or, with the handle cached, on updateOne
StartPut(r) ==
    /\ ~exited /\ server = "listening"
    /\ rq[r].pc = "new"
    /\ \A q \in 1..(r - 1) : rq[q].pc # "new"
    /\ \E id \in ConcurrentIds, body \in ConcurrentBodies :
          LET update == Without(AssignFrom(body), "_id")
              started == [rq[r] EXCEPT !.body = body, !.oid = HexOf(id),
                                       !.update = CoerceSpace(update)]
              answered(response) ==
                  [rq EXCEPT ![r] = [started EXCEPT !.pc = "done", !.resp = response]]
          IN  IF ~IsObjectIdHex(id) THEN
                  /\ rq' = answered(ErrorResponse(400, "Invalid id"))
                  /\ UNCHANGED <<client, mongo>>
              ELSE IF HasSpace(update) /\ ~IsFiniteNum(ToNumber(update["space"])) THEN
                  /\ rq' = answered(ErrorResponse(400, "space must be a number"))
                  /\ UNCHANGED <<client, mongo>>
              ELSE IF database # 0 THEN
                  /\ rq' = [rq EXCEPT ![r] = [started EXCEPT !.pc = "updateOne",
                                                             !.db = database]]
                  /\ UNCHANGED <<client, mongo>>
              ELSE IF ~uri THEN
                  /\ rq' = answered(ErrorResponse(500, "Failed to update lesson"))
                  /\ UNCHANGED <<client, mongo>>
              ELSE
                  /\ mongo' = Append(mongo, NewMongoClient)
                  /\ client' = Len(mongo) + 1
                  /\ rq' = [rq EXCEPT ![r] = [started EXCEPT !.pc = "connect",
                                                             !.own = Len(mongo) + 1]]
    /\ UNCHANGED <<uri, database, lessons, server, timer, exited, sg, last, svars>>

\* client.connect() of the getDb call of request r settles; when it
\* resolves, `database = client.db(dbName)` reads the module-level client
\* as it is now, and the handler goes on to updateOne
ConnectSettles(r) ==
    /\ ~exited
    /\ rq[r].pc = "connect"
    /\ \E connects \in BOOLEAN :
          IF connects THEN
              /\ mongo' = [mongo EXCEPT ![rq[r].own].connected = TRUE]
              /\ database' = client
              /\ rq' = [rq EXCEPT ![r].pc = "updateOne", ![r].db = client]
          ELSE
              /\ rq' = Answer(r, ErrorResponse(500, "Failed to update lesson"))
              /\ UNCHANGED <<mongo, database>>
    /\ UNCHANGED <<uri, client, lessons, server, timer, exited, sg, last, svars>>

\* updateOne of request r is applied by the storage and returns
UpdateOneSettles(r) ==
    /\ ~exited
    /\ rq[r].pc = "updateOne"
    /\ \E updates \in BOOLEAN :
          /\ Usable(rq[r].db) => updates
          /\ IF ~updates THEN
                 /\ rq' = Answer(r, ErrorResponse(500, "Failed to update lesson"))
                 /\ UNCHANGED <<lessons, last>>
             ELSE IF rq[r].oid \notin DOMAIN lessons THEN
                 /\ rq' = Answer(r, ErrorResponse(404, "Lesson not found"))
                 /\ lessons' = SetFields(lessons, rq[r].oid, rq[r].update)
                 /\ UNCHANGED last
             ELSE
                 /\ lessons' = SetFields(lessons, rq[r].oid, rq[r].update)
                 /\ last' = [last EXCEPT ![rq[r].oid] = r]
                 /\ rq' = [q \in DOMAIN rq |->
                              IF q = r THEN [rq[r] EXCEPT !.pc = "findOne"]
                              ELSE IF rq[q].pc = "findOne" /\ rq[q].oid = rq[r].oid
                                   THEN [rq[q] EXCEPT !.over = TRUE]
                                   ELSE rq[q]]
    /\ UNCHANGED <<uri, client, database, mongo, server, timer, exited, sg, svars>>

\* findOne of request r returns and the handler answers with the document
FindOneSettles(r) ==
    /\ ~exited
    /\ rq[r].pc = "findOne"
    /\ \E finds \in BOOLEAN :
          /\ Usable(rq[r].db) => finds
          /\ IF ~finds
             THEN rq' = Answer(r, ErrorResponse(500, "Failed to update lesson"))
             ELSE rq' = Answer(r, JsonResponse(200, FindOne(lessons, rq[r].oid)))
    /\ UNCHANGED <<uri, client, database, lessons, mongo, server, timer, exited, sg, last,
                   svars>>

\* server.close(() => process.exit(0)); setTimeout(() => process.exit(0), 5000)
StopListening(s) ==
    /\ server' = "closed"
    /\ timer' = TRUE
    /\ sg' = [sg EXCEPT ![s] = "done"]

\* SIGINT or SIGTERM is delivered: shutdown runs up to `await client.close()`,
\* or to its end when there is no client
Signal(s) ==
    /\ ~exited
    /\ sg[s] = "none"
    /\ \A t \in 1..(s - 1) : sg[t] # "none"
    /\ IF client # 0 THEN
           /\ mongo' = [mongo EXCEPT ![client].closes = @ + 1]
           /\ sg' = [sg EXCEPT ![s] = "closing"]
           /\ UNCHANGED <<server, timer>>
       ELSE
           /\ StopListening(s)
           /\ UNCHANGED mongo
    /\ UNCHANGED <<uri, client, database, lessons, exited, rq, last, svars>>

\* client.close() of the shutdown started by signal s settles (a rejection
\* is caught and ignored) and shutdown runs to its end
CloseSettles(s) ==
    /\ ~exited
    /\ sg[s] = "closing"
    /\ StopListening(s)
    /\ UNCHANGED <<uri, client, database, lessons, mongo, exited, rq, last, svars>>

\* the callback of server.close(): every connection has ended
ExitDrained ==
    /\ ~exited
    /\ server = "closed"
    /\ \A r \in DOMAIN rq : ~InFlight(r)
    /\ exited' = TRUE
    /\ UNCHANGED <<uri, client, database, lessons, mongo, server, timer, rq, sg, last, svars>>

\* the 5 s timer fires
ExitTimeout ==
    /\ ~exited
    /\ timer
    /\ exited' = TRUE
    /\ UNCHANGED <<uri, client, database, lessons, mongo, server, timer, rq, sg, last, svars>>

ConcurrentNext ==
    \/ \E r \in 1..MaxRequests : StartPut(r)
    \/ \E r \in 1..MaxRequests : ConnectSettles(r)
    \/ \E r \in 1..MaxRequests : UpdateOneSettles(r)
    \/ \E r \in 1..MaxRequests : FindOneSettles(r)
    \/ \E s \in 1..MaxSignals : Signal(s)
    \/ \E s \in 1..MaxSignals : CloseSettles(s)
    \/ ExitDrained
    \/ ExitTimeout

Concurrent == ConcurrentInit /\ [][ConcurrentNext]_vars

\* a pending close() settles, and the 5 s timer fires unless the process has
\* exited before
FairConcurrent ==
    /\ Concurrent
    /\ \A s \in 1..MaxSignals : WF_vars(CloseSettles(s))
    /\ WF_vars(ExitTimeout)

----------------------------------------------------------------------------
(* Properties of POST /orders *)

PostDone == pc = "done" /\ req.method = "POST"
PostStep == pc = "busy" /\ req.method = "POST"

\* the field of the request body, undefined when the body or the field is
\* missing
Supplied(key) ==
    IF req.body.t = "obj" /\ key \in DOMAIN req.body.o THEN req.body.o[key] ELSE Undefined

LettersAndSpaces(v) ==
    /\ v.t = "str"
    /\ Len(v.s) > 0
    /\ \A i \in 1..Len(v.s) : v.s[i] \in UpperSet \cup LowerSet \cup {" "}

DigitsOnly(v) ==
    /\ v.t = "str"
    /\ Len(v.s) > 0
    /\ \A i \in 1..Len(v.s) : v.s[i] \in DigitSet

ValidIdentity == LettersAndSpaces(Supplied("name")) /\ DigitsOnly(Supplied("phone"))

SuppliesItems == Supplied("items").t = "arr" /\ Supplied("items").a # <<>>
SuppliesBatch ==
    /\ Supplied("lessonIDs").t = "arr" /\ Supplied("lessonIDs").a # <<>>
    /\ Supplied("space").t # "undefined"

CoercesPositive(v) == ToNumber(v).k = "fin" /\ ToNumber(v).m > 0

LastOrder == orders[Len(orders)]

IsItemized(d) == "items" \in DOMAIN d /\ "lessonIDs" \notin DOMAIN d /\ "space" \notin DOMAIN d
IsBatch(d) == "items" \notin DOMAIN d /\ "lessonIDs" \in DOMAIN d /\ "space" \in DOMAIN d

C1_State ==
    /\ (PostDone /\ ~ValidIdentity) =>
          resp = ErrorResponse(400, "Invalid name or phone") /\ calls = <<>>
    /\ \A i \in 1..Len(orders) :
          LettersAndSpaces(orders[i].name) /\ DigitsOnly(orders[i].phone)

C1_Step == (PostStep /\ ~ValidIdentity) => orders' = orders

\* C1: a POST /orders whose name is not a string of letters and spaces, or
\* whose phone is not a string of digits, is answered 400 "Invalid name or
\* phone" whatever the other fields hold, without any storage call and without
\* an insert; every persisted order has such a name and such a phone.
C1_InvalidNameOrPhoneRejected == [] C1_State /\ [][C1_Step]_vars

C1_Witness ==
    /\ PostDone
    /\ Supplied("name") = Str(<<"J", "0">>)
    /\ DigitsOnly(Supplied("phone"))
    /\ SuppliesItems
    /\ resp.status = 400
    /\ resp.error = "Invalid name or phone"

\* C2: every persisted order is itemized (items, no lessonIDs, no space) or
\* batch (lessonIDs and space, no items); a payload with a valid name and
\* phone that supplies both a non-empty items array and lessonIDs with space
\* is never stored as a batch document: when it is stored, it is itemized.
C2_ExactlyOneShape ==
    /\ \A i \in 1..Len(orders) : IsItemized(orders[i]) \/ IsBatch(orders[i])
    /\ (PostDone /\ ValidIdentity /\ SuppliesItems /\ SuppliesBatch) =>
          /\ resp.status \in {201, 400, 500}
          /\ resp.status = 201 =>
                /\ IsItemized(LastOrder)
                /\ Len(LastOrder.items.a) = Len(Supplied("items").a)
                /\ resp.body.t = "obj"
                /\ "items" \in DOMAIN resp.body.o
                /\ {"lessonIDs", "space"} \cap DOMAIN resp.body.o = {}

C2_Witness ==
    /\ PostDone /\ ValidIdentity /\ SuppliesItems /\ SuppliesBatch
    /\ resp.status = 201
    /\ IsItemized(LastOrder)

\* C3: with a valid name and phone and a non-empty items array, an element
\* whose space does not coerce to a finite number > 0 makes the answer 400
\* "Each item.space must be a positive number", wherever the element stands,
\* and nothing is inserted; every item of a persisted order has a finite
\* space > 0.
C3_BadItemSpaceRejected ==
    /\ (/\ PostDone /\ ValidIdentity /\ SuppliesItems
        /\ \E i \in 1..Len(Supplied("items").a) :
              /\ Supplied("items").a[i].t = "obj"
              /\ ~CoercesPositive(Prop(Supplied("items").a[i], "space")))
          => /\ resp = ErrorResponse(400, "Each item.space must be a positive number")
             /\ calls = <<>>
    /\ \A i \in 1..Len(orders) :
          "items" \in DOMAIN orders[i] =>
             \A j \in 1..Len(orders[i].items.a) :
                LET sp == orders[i].items.a[j].o.space
                IN  sp.t = "num" /\ sp.k = "fin" /\ sp.m > 0

\* the identifier stored for a supplied one
StoredIdOf(id) ==
    IF Len(StringOf(id)) = 24 /\ \A i \in 1..24 : StringOf(id)[i] \in HexSet
    THEN ObjectIdOf(ToLowerCase(StringOf(id)))
    ELSE Str(StringOf(id))

BatchCase == PostDone /\ ValidIdentity /\ ~SuppliesItems /\ SuppliesBatch

\* C4: with a valid name and phone, no non-empty items array, a non-empty
\* lessonIDs array and a supplied space: when the space coerces to a finite
\* number > 0 the order built is {name, phone, lessonIDs, space, createdAt}
\* with that number as space (2 and "2" both give the number 2) and one
\* entry per supplied id in the same order, and it is what is stored on 201;
\* otherwise the answer is 400 "space must be a positive number" and nothing
\* is inserted.
C4_BatchDocument ==
    BatchCase =>
       IF CoercesPositive(Supplied("space")) THEN
           /\ resp.status \in {201, 500}
           /\ resp.status = 500 => calls # <<>>
           /\ resp.status = 201 =>
                 /\ DOMAIN LastOrder = {"_id", "name", "phone", "lessonIDs", "space", "createdAt"}
                 /\ LastOrder.name = Supplied("name")
                 /\ LastOrder.phone = Supplied("phone")
                 /\ LastOrder.space = ToNumber(Supplied("space"))
                 /\ Supplied("space") \in {IntNum(2), Str(<<"2">>)} => LastOrder.space = IntNum(2)
                 /\ LastOrder.lessonIDs.t = "arr"
                 /\ Len(LastOrder.lessonIDs.a) = Len(Supplied("lessonIDs").a)
                 /\ \A i \in 1..Len(Supplied("lessonIDs").a) :
                       LastOrder.lessonIDs.a[i] = StoredIdOf(Supplied("lessonIDs").a[i])
       ELSE /\ resp = ErrorResponse(400, "space must be a positive number")
            /\ calls = <<>>
            /\ Len(orders) = created

C4_Witness ==
    /\ BatchCase
    /\ Supplied("space") = Str(<<"2">>)
    /\ Len(Supplied("lessonIDs").a) = 3
    /\ resp.status = 201
    /\ LastOrder.space = IntNum(2)

OrderErrors ==
    {"Invalid name or phone", "Each item.space must be a positive number",
     "space must be a positive number", "Provide items[] or lessonIDs[] with space"}

\* C5: buildOrderDoc never raises: a POST /orders is answered 201, or 400
\* with one of the four messages, and 500 only when a storage call failed.
C5_NormaliserTotal ==
    PostDone =>
       \/ resp.status = 201
       \/ resp.status = 400 /\ resp.error \in OrderErrors
       \/ resp.status = 500 /\ calls # <<>>

----------------------------------------------------------------------------
(* Properties of the writes *)

Handling(method) == pc = "busy" /\ req.method = method
Handled(method) == pc = "done" /\ req.method = method

WriteCalls == {i \in 1..Len(calls) : calls[i].op \in {"insertOne", "updateOne"}}
InsertCalls == {i \in 1..Len(calls) : calls[i].op = "insertOne"}

Changed == {h \in DOMAIN lessons : lessons'[h] # lessons[h]}

C6_State ==
    /\ Len(orders) = created
    /\ pc = "done" => Cardinality(WriteCalls) <= 1
    /\ (PostDone /\ resp.status = 201) => Cardinality(InsertCalls) = 1
    /\ (PostDone /\ resp.status = 400) => WriteCalls = {}
    /\ Handled("GET") => WriteCalls = {}
    /\ Handled("PUT") => InsertCalls = {}

C6_Step ==
    /\ Len(orders') >= Len(orders)
    /\ SubSeq(orders', 1, Len(orders)) = orders
    /\ IF PostStep /\ resp'.status = 201
       THEN Len(orders') = Len(orders) + 1 /\ lessons' = lessons
       ELSE orders' = orders
    /\ Handling("GET") => lessons' = lessons
    /\ Cardinality(Changed) <= 1

\* C6: a request performs at most one write: POST /orders inserts exactly
\* one order when it answers 201 and none otherwise, the GET routes write
\* nothing, PUT /lessons/:id updates at most one lesson; the number of
\* persisted orders is the number of 201 responses of POST /orders, and an
\* inserted order is never modified or removed.
C6_AtMostOneWrite == [] C6_State /\ [][C6_Step]_vars

C6_Witness ==
    /\ PostDone
    /\ resp.status = 201
    /\ Len(orders) = 1
    /\ created = 1
    /\ lessons # InitialLessons

\* C7: the space of a persisted lesson is a number whenever it is present.
C7_LessonSpaceNumeric ==
    \A h \in DOMAIN lessons :
       "space" \in DOMAIN lessons[h] => lessons[h].space.t = "num"

\* C8: no lesson is left with a negative or a fractional space.
C8_LessonSpaceNonNegativeInteger ==
    \A h \in DOMAIN lessons :
       ("space" \in DOMAIN lessons[h] /\ lessons[h].space.t = "num") =>
          /\ lessons[h].space.k = "fin"
          /\ lessons[h].space.e = 0
          /\ lessons[h].space.m >= 0

ValidPathId == Len(req.id) = 24 /\ \A i \in 1..Len(req.id) : req.id[i] \in HexSet

SpaceNotANumber ==
    /\ Supplied("space").t \notin {"undefined", "null"}
    /\ ToNumber(Supplied("space")).k # "fin"

C9_State ==
    /\ (Handled("PUT") /\ (~ValidPathId \/ SpaceNotANumber)) => resp.status = 400
    /\ (Handled("PUT") /\ resp.status = 400) => calls = <<>>
    /\ (Handled("PUT") /\ ValidPathId /\ ~SpaceNotANumber
          /\ ToLowerCase(req.id) \notin DOMAIN lessons) => resp.status \in {404, 500}
    /\ (Handled("PUT") /\ resp.status = 404) => ToLowerCase(req.id) \notin DOMAIN lessons

C9_Step ==
    /\ (Handling("PUT") /\ resp'.status \in {400, 404}) => lessons' = lessons /\ orders' = orders
    /\ (Handling("PUT") /\ resp'.status = 400) => client' = client /\ database' = database

\* C9: a PUT /lessons/:id with an invalid id, or with a space that does not
\* coerce to a finite number, is answered 400 without any storage call, the
\* connection included; one with a valid id that matches no lesson is
\* answered 404 (500 when the storage fails); a PUT answered 400 or 404
\* leaves every lesson as it was.
C9_ClientErrorLeavesStorage == [] C9_State /\ [][C9_Step]_vars

C9_Witness ==
    /\ Handled("PUT")
    /\ req.id = IdC
    /\ Supplied("space") = IntNum(7)
    /\ resp.status = 404
    /\ lessons = InitialLessons

C10_Step ==
    /\ PostStep => lessons' = lessons
    /\ DOMAIN lessons' = DOMAIN lessons
    /\ \A h \in DOMAIN lessons :
          lessons'[h] # lessons[h] =>
             Handling("PUT") /\ ValidPathId /\ ToLowerCase(req.id) = h

\* C10: POST /orders leaves every lesson unchanged whatever its outcome; a
\* lesson changes only in a PUT /lessons/:id on its own id.
C10_OrdersLeaveLessons == [][C10_Step]_vars

C10_Witness ==
    /\ PostDone
    /\ resp.status = 201
    /\ "items" \in DOMAIN LastOrder
    /\ LastOrder.items.a[1].o.lessonId = ObjectIdOf(IdA)
    /\ LastOrder.items.a[1].o.space = IntNum(2)
    /\ lessons[IdA].space = IntNum(5)

----------------------------------------------------------------------------
(* Properties of GET /lessons and GET /search *)

ListDone == pc = "done" /\ req.method = "GET" /\ req.path = "/lessons"

\* the handler issued its find; Cursor is what it asked of the storage
IssuedFind == Len(calls) >= 2 /\ calls[2].op = "find"
Cursor == calls[2].arg

\* the parameter is present and has a numeric value
Numeric(v) == v # Undefined /\ ToNumber(v).k # "nan"

Clamp(n, lo, hi) == IF NumLess(n, lo) THEN lo ELSE IF NumLess(hi, n) THEN hi ELSE n

ClaimedLimit(v) ==
    IF Numeric(v) THEN Clamp(ToNumber(v), IntNum(1), IntNum(100)) ELSE IntNum(50)

ClaimedSkip(v) ==
    IF Numeric(v) /\ ~NumLess(ToNumber(v), IntNum(0)) THEN ToNumber(v) ELSE IntNum(0)

\* C13: the limit GET /lessons uses is the numeric value of ?limit= clamped
\* to [1, 100], 50 when the parameter is absent or not numeric (500 gives
\* 100, 0 gives 1); the skip is the numeric value of ?skip= floored at 0, 0
\* when absent or not numeric (-5 gives 0); for every input the limit is in
\* [1, 100] and the skip is at least 0.
C13_LimitAndSkipClamped ==
    (ListDone /\ IssuedFind) =>
        /\ Cursor.limit = ClaimedLimit(req.query.limit)
        /\ Cursor.skip = ClaimedSkip(req.query.skip)
        /\ NumLeq(IntNum(1), Cursor.limit) /\ NumLeq(Cursor.limit, IntNum(100))
        /\ NumLeq(IntNum(0), Cursor.skip)

\* what does hold: the range, and the claimed value for every ?limit= but 0
C13_LimitAndSkipInRange ==
    (ListDone /\ IssuedFind) =>
        /\ req.query.limit # Str(<<"0">>) => Cursor.limit = ClaimedLimit(req.query.limit)
        /\ req.query.limit = Str(<<"0">>) => Cursor.limit = IntNum(50)
        /\ Cursor.skip = ClaimedSkip(req.query.skip)
        /\ NumLeq(IntNum(1), Cursor.limit) /\ NumLeq(Cursor.limit, IntNum(100))
        /\ NumLeq(IntNum(0), Cursor.skip)

\* the fields a listing may be sorted by, with their names as query text
SortFields ==
    {<<"topic", <<"t", "o", "p", "i", "c">> >>,
     <<"location", <<"l", "o", "c", "a", "t", "i", "o", "n">> >>,
     <<"price", <<"p", "r", "i", "c", "e">> >>,
     <<"space", <<"s", "p", "a", "c", "e">> >>,
     <<"_id", <<"_", "i", "d">> >>}

ClaimedSortKey(v) ==
    IF v.t = "str" /\ \E f \in SortFields : f[2] = v.s
    THEN (CHOOSE f \in SortFields : f[2] = v.s)[1]
    ELSE "_id"

\* the value reads "desc" in any mix of upper and lower case
IsDesc(v) ==
    /\ v.t = "str"
    /\ Len(v.s) = 4
    /\ v.s[1] \in {"d", "D"} /\ v.s[2] \in {"e", "E"}
    /\ v.s[3] \in {"s", "S"} /\ v.s[4] \in {"c", "C"}

\* the listing answered is in the order asked for (a numeric sort field)
Ordered(arr, key, dir) ==
    \A i \in 1..(Len(arr) - 1) :
        IF dir = -1 THEN NumLeq(arr[i + 1].o[key], arr[i].o[key])
                    ELSE NumLeq(arr[i].o[key], arr[i + 1].o[key])

\* C14: GET /lessons sorts by ?sort= when it is one of topic, location,
\* price, space, _id and by _id for every other value (absent, an unknown
\* field, "constructor", "__proto__"); the direction is descending exactly
\* when ?order= lower-cased is "desc"; building the sort never fails: once
\* the connection is there the find is issued with that sort.
C14_SortKeyAllowlisted ==
    ListDone =>
        /\ calls # <<>> /\ calls[1].op = "getDb"
        /\ database => IssuedFind
        /\ IssuedFind =>
              /\ Cursor.sort = ClaimedSortKey(req.query.sort)
              /\ Cursor.dir = (IF IsDesc(req.query.order) THEN -1 ELSE 1)
              /\ (resp.status = 200 /\ Cursor.sort = "price") =>
                     Ordered(resp.body.a, Cursor.sort, Cursor.dir)

C14_Witness ==
    /\ ListDone /\ IssuedFind
    /\ req.query.sort = Str(<<"c", "o", "n", "s", "t", "r", "u", "c", "t", "o", "r">>)
    /\ req.query.order = Str(<<"D", "E", "S", "C">>)
    /\ Cursor.sort = "_id" /\ Cursor.dir = -1
    /\ resp.status = 200
    /\ Len(resp.body.a) = 2
    /\ resp.body.a[1].o._id = ObjectIdOf(IdB)

SearchStep == pc = "busy" /\ req.method = "GET" /\ req.path = "/search"
SearchDone == pc = "done" /\ req.method = "GET" /\ req.path = "/search"

\* ?term= is absent, empty or made of spaces only
BlankTerm ==
    \/ req.query.term = Undefined
    \/ /\ req.query.term.t = "str"
       /\ \A i \in 1..Len(req.query.term.s) : req.query.term.s[i] = " "

C15_State ==
    (SearchDone /\ BlankTerm) => resp = JsonResponse(200, Arr(<<>>)) /\ calls = <<>>

C15_Step ==
    (SearchStep /\ BlankTerm) =>
        client' = client /\ database' = database /\ lessons' = lessons

\* C15: GET /search whose term is absent, empty or only whitespace is
\* answered 200 with the empty list and makes no storage call at all: no
\* getDb (the connection is left as it was, also when no uri is set) and no
\* find.
C15_BlankSearchSkipsStorage == [] C15_State /\ [][C15_Step]_vars

C15_Witness ==
    /\ SearchDone
    /\ ~uri
    /\ req.query.term = Str(<<" ", " ">>)
    /\ resp = JsonResponse(200, Arr(<<>>))
    /\ calls = <<>>
    /\ client = "none"

----------------------------------------------------------------------------
(* Properties of the storage connection and of the shutdown *)

\* the MongoClient objects on which connect() has resolved
Connected == {k \in 1..Len(mongo) : mongo[k].connected}

\* the requests whose getDb call has returned a handle
Returned == {r \in DOMAIN rq : rq[r].db # 0}

\* C11: the storage connection is established once per process: whatever
\* the interleaving of concurrent getDb calls, several of them before the
\* first connect has completed included, at most one MongoClient is ever
\* created and connected, and every call that returns hands out the same
\* database handle.
C11_ConnectsOnce ==
    /\ Cardinality(Connected) <= 1
    /\ \A r1, r2 \in Returned : rq[r1].db = rq[r2].db

\* C12: on shutdown the storage connection is closed exactly once, whatever
\* the signals (a second SIGINT or SIGTERM while the first shutdown is still
\* running included) and whatever the getDb calls before: close() is never
\* called a second time on a client, and when the process has exited every
\* client that was created has been closed.
C12_ClosedExactlyOnce ==
    /\ \A k \in 1..Len(mongo) : mongo[k].closes <= 1
    /\ exited => \A k \in 1..Len(mongo) : mongo[k].closes = 1

----------------------------------------------------------------------------
(* Properties of concurrent PUT /lessons/:id *)

\* the fields request r asked to set, and the value it asked for each:
\* space as a number, the others as sent
FieldsOf(r) == DOMAIN rq[r].body.o \ {"_id"}
Wrote(r, k) == IF k = "space" THEN ToNumber(rq[r].body.o[k]) ELSE rq[r].body.o[k]

Updated(r) == rq[r].pc = "done" /\ rq[r].resp.status = 200

\* the response of r shows every field as r wrote it
ReturnsOwn(r) == \A k \in FieldsOf(r) : rq[r].resp.body.o[k] = Wrote(r, k)

\* each lesson holds the fields of the write applied to it last
StoredIsLast ==
    \A h \in DOMAIN lessons :
        last[h] # 0 => \A k \in FieldsOf(last[h]) : lessons[h][k] = Wrote(last[h], k)

\* C16: a PUT /lessons/:id answered 200 returns the lesson as updated by
\* that request: space and every other field it set have the values it
\* wrote, also when another PUT on the same lesson lands between its
\* updateOne and its findOne; and after concurrent PUTs the stored fields
\* are those of the write the storage applied last.
C16_ReturnsOwnUpdate ==
    /\ \A r \in DOMAIN rq : Updated(r) => ReturnsOwn(r)
    /\ StoredIsLast

C16_State ==
    /\ \A r \in DOMAIN rq : (Updated(r) /\ ~rq[r].over) => ReturnsOwn(r)
    /\ StoredIsLast

C16_Step ==
    \A r \in DOMAIN rq :
        (rq[r].pc = "findOne" /\ rq'[r].resp.status = 200) =>
            /\ rq'[r].resp.body.o._id = ObjectIdOf(rq[r].oid)
            /\ \A k \in DOMAIN lessons[rq[r].oid] :
                  rq'[r].resp.body.o[k] = lessons[rq[r].oid][k]

\* C16 as it holds: a PUT /lessons/:id answered 200 returns the lesson as
\* it is stored when its findOne runs; the fields it set have the values it
\* wrote unless another PUT on the same lesson was applied between its
\* updateOne and its findOne; and after concurrent PUTs the stored fields
\* are those of the write the storage applied last.
C16_ReturnsStoredLesson == [] C16_State /\ [][C16_Step]_vars

C16_Witness ==
    /\ Updated(1) /\ Updated(2)
    /\ rq[1].oid = rq[2].oid
    /\ rq[1].over /\ ~rq[2].over
    /\ Wrote(1, "space") = IntNum(7) /\ Wrote(2, "space") = IntNum(8)
    /\ rq[1].resp.body.o.space = IntNum(8)
    /\ ReturnsOwn(2)
    /\ last[rq[1].oid] = 2
    /\ lessons[rq[1].oid].space = IntNum(8)

----------------------------------------------------------------------------
(* Properties of the shutdown with requests in flight *)

\* the client whose connection request r is using or about to use
ClientOf(r) == IF rq[r].pc = "connect" THEN rq[r].own ELSE rq[r].db

\* C17: shutdown drains before it closes: after a signal the storage
\* connection is not closed while a request in flight still has a storage
\* call to make, and no request accepted after the signal is handed the
\* closed handle by getDb (so that no request fails with a 500 because the
\* connection was closed under it).
C17_DrainsBeforeClose ==
    \A r \in DOMAIN rq : InFlight(r) => mongo[ClientOf(r)].closes = 0

\* a signal has been delivered
Signalled == \E s \in DOMAIN sg : sg[s] # "none"

\* the last part of C17, which holds: once a signal is delivered the
\* process eventually exits
C17_EventuallyExits == Signalled ~> exited

====
